---- MODULE Spec2Model ----
(***************************************************************************)
(* Scheduled delivery engine of SlackConnectBackend: MessageScheduler      *)
(* (services/scheduler), SlackService.ensureValidToken / sendMessage and   *)
(* the two Mongoose collections they share.  Every `await` of the source   *)
(* is an interleaving point, so each asynchronous method is split into one *)
(* action per awaited call.                                                *)
(***************************************************************************)
EXTENDS Integers, Sequences, FiniteSets, TLC

\* ---------------------------------------------------------------- bounds
MaxRecords == 1        \* Spec: documents inserted into ScheduledMessage
TickRecords == 2       \* SpecTick: documents inserted into ScheduledMessage
ApiRecords == 2        \* SpecApi: documents inserted into ScheduledMessage
ApiRuns    == 1        \* SpecApi: cron ticks started in one behaviour
ApiTokens  == 1        \* SpecApi: access tokens issued by authorization
MaxTime    == 2        \* the clock runs over 0..MaxTime
MaxTokens  == 2        \* access tokens the provider ever issues
RefreshTokens == 3     \* SpecRefresh: access tokens the provider ever issues
RouteRuns  == 2        \* SpecRoute: ticks and send-now requests started
MaxSends   == 2        \* the per-record send counter saturates here
MaxRuns    == 2        \* cron ticks and send-now calls started in one behaviour
MaxFaults  == 2        \* storage operations that throw in one behaviour

Users      == {"U1", "U2"}
Workers    == {"w1", "w2"}     \* concurrently running cron ticks / send-now calls
Cancellers == {"c1"}           \* concurrently running cancel calls
Teams      == {"T1", "T2"}     \* Slack workspaces

\* maxlength of ScheduledMessage.message
MessageMaxLength == 4000

\* ------------------------------------------------------ absent field values
NoDate  == -1          \* an unset Date field (sentAt, tokenExpiresAt)
Stamp   == "date"      \* a set sentAt: the Date of the moment it was assigned
NoStamp == "unset"     \* an unset sentAt
NoToken == 0           \* an unset token (refreshToken)
NoError == ""          \* an unset error string

\* -------------------------------------------------- messages of thrown Errors
ErrUserNotFound  == "User not found"
ErrTokenExpired  == "Token expired and no refresh token available"
ErrRefresh       == "Failed to refresh access token"
ErrSendNotOk     == "Failed to send message to Slack"
ErrSendThrow     == "Failed to send message"
ErrStorage       == "MongoError"

AuthErrors == {ErrUserNotFound, ErrTokenExpired, ErrRefresh}
SendErrors == {ErrSendNotOk, ErrSendThrow}

VARIABLES
    now,                \* wall clock (new Date())
    scheduledMessages,  \* ScheduledMessage collection: sequence, _id = index
    slackUsers,         \* SlackUser collection: the set of stored rows
    issued,             \* number of access tokens the provider has issued
    worker,             \* per worker: the running tick / send-now call; its fields
                        \* outcome, lastId, lastKind (result of the last per-record
                        \* step and the kind of call that has returned) and
                        \* errs (steps of this tick that ended in the outer catch)
                        \* are history; caller is the authenticated user of
                        \* the send-now request the worker serves
    canceller,          \* per canceller: the running cancel call
    sendCalls,          \* history: per _id, calls of chat.postMessage (saturating)
    delivered,          \* history: per _id, some chat.postMessage answered ok
    cancelledOk,        \* history: per _id, some cancel call returned true
    runs,               \* history: ticks and send-now calls started (saturating)
    faults              \* history: storage operations that threw (saturating)

vars == <<now, scheduledMessages, slackUsers, issued, worker, canceller,
          sendCalls, delivered, cancelledOk, runs, faults>>

Terminal == {"sent", "failed", "cancelled"}

Sat(n, max) == IF n < max THEN n + 1 ELSE n

\* a storage operation returns (ok) or throws
Storage(ok) == faults' = IF ok THEN faults ELSE Sat(faults, MaxFaults)

IdleWorker(res, id) ==
    [kind |-> "idle", queue |-> <<>>, idx |-> 0, pc |-> "idle",
     sentAt |-> NoStamp, err |-> NoError, token |-> NoToken,
     upd |-> <<>>, errs |-> {}, outcome |-> res, lastId |-> id,
     lastKind |-> "none", caller |-> ""]

\* w has returned from processScheduledMessages / sendScheduledMessage
Returned(w, res) ==
    [IdleWorker(res, worker[w].queue[worker[w].idx]) EXCEPT
        !.lastKind = worker[w].kind]

IdleCanceller == [pc |-> "idle", id |-> 0, userId |-> ""]

Init ==
    /\ now = 0
    /\ scheduledMessages = <<>>
    /\ slackUsers = {}
    /\ issued = 0
    /\ worker = [w \in Workers |-> IdleWorker("none", 0)]
    /\ canceller = [c \in Cancellers |-> IdleCanceller]
    /\ sendCalls = <<>>
    /\ delivered = <<>>
    /\ cancelledOk = <<>>
    /\ runs = 0
    /\ faults = 0

\* ------------------------------------------------------------------ clock
clockTick ==
    /\ now' = now + 1
    /\ UNCHANGED <<scheduledMessages, slackUsers, issued, worker, canceller,
                   sendCalls, delivered, cancelledOk, runs, faults>>

\* --------------------------------------------------- OAuth callback (upsert)
\* the rows findOne({id: userId}) can return, and the one it returns
UserRows_Any(u) == slackUsers

UserRows(u) == {r \in slackUsers : r.id = u}

FindUser(u) == CHOOSE r \in UserRows(u) : TRUE

\* findOneAndUpdate({id, teamId}, userData, {upsert: true}): one atomic
\* statement.  A row matching {id, teamId} is replaced in place; without one
\* a row is inserted, which the unique index on id refuses (duplicate key
\* error, nothing stored) when the user is stored under another team.
Upsert_Insert(rows, row) == rows \cup {row}

Upsert(rows, row) ==
    LET match == {r \in rows : r.id = row.id /\ r.teamId = row.teamId} IN
    IF match # {} THEN (rows \ match) \cup {row}
    ELSE IF \E r \in rows : r.id = row.id THEN rows
    ELSE rows \cup {row}

authCallback(u, team, withRefresh, expiresIn) ==
    /\ issued' = issued + 1
    /\ slackUsers' = Upsert(slackUsers,
           [id             |-> u,
            teamId         |-> team,
            accessToken    |-> issued + 1,
            refreshToken   |-> IF withRefresh THEN issued + 1 ELSE NoToken,
            tokenExpiresAt |-> IF expiresIn > 0 THEN now + expiresIn ELSE NoDate])
    /\ UNCHANGED <<now, scheduledMessages, worker, canceller,
                   sendCalls, delivered, cancelledOk, runs, faults>>

\* ------------------------------------------------------- scheduleMessage
\* message is the length of the body
NewMessage(u, scheduledFor, message) ==
    [userId |-> u, message |-> message, scheduledFor |-> scheduledFor,
     status |-> "pending", sentAt |-> NoStamp, error |-> NoError]

\* if (scheduledFor <= new Date()) throw
InFuture_OrNow(scheduledFor) == scheduledFor >= now

InFuture(scheduledFor) == scheduledFor > now

\* the schema's maxlength validator, run by scheduledMessage.save()
ValidMessage_OffByOne(message) == message <= MessageMaxLength + 1

ValidMessage(message) == message <= MessageMaxLength

\* a call that throws (time check or validation) stores nothing
scheduleMessage(u, scheduledFor, message) ==
    /\ InFuture(scheduledFor)
    /\ ValidMessage(message)
    /\ scheduledMessages' =
          Append(scheduledMessages, NewMessage(u, scheduledFor, message))
    /\ sendCalls' = Append(sendCalls, 0)
    /\ delivered' = Append(delivered, FALSE)
    /\ cancelledOk' = Append(cancelledOk, FALSE)
    /\ UNCHANGED <<now, slackUsers, issued, worker, canceller, runs, faults>>

\* ------------------------------------------- sendScheduledMessage: plumbing
CurId(w) == worker[w].queue[worker[w].idx]

Exists(id) == id \in DOMAIN scheduledMessages

\* The per-record step of worker w returns with result res: a tick moves on
\* to the next due message of its list, anything else is finished.
NextRecord(w, res) ==
    [worker[w] EXCEPT !.idx = @ + 1, !.pc = "findById",
                      !.sentAt = NoStamp, !.err = NoError,
                      !.token = NoToken, !.upd = <<>>,
                      !.errs = IF res = "error" THEN @ \cup {CurId(w)} ELSE @,
                      !.outcome = res, !.lastId = CurId(w)]

EndStep_Abort(w, res) ==
    IF worker[w].kind = "tick" /\ worker[w].idx < Len(worker[w].queue)
       /\ res \notin {"error", "failed"}
    THEN NextRecord(w, res)
    ELSE Returned(w, res)

EndStep(w, res) ==
    IF worker[w].kind = "tick" /\ worker[w].idx < Len(worker[w].queue)
    THEN NextRecord(w, res)
    ELSE Returned(w, res)

Fail_AsSuccess(w, msg) == [worker[w] EXCEPT !.pc = "save", !.err = msg, !.upd = <<>>]

Fail_KeepGoing(w, msg) == [worker[w] EXCEPT !.pc = "sendMessage", !.err = msg, !.upd = <<>>]

\* The inner catch block: message.status = 'failed'; message.error = msg
Fail(w, msg) == [worker[w] EXCEPT !.pc = "saveFailed", !.err = msg, !.upd = <<>>]

\* --------------------------------------------- processScheduledMessages
IsDue_Strict(id, t) ==
    /\ scheduledMessages[id].status = "pending"
    /\ scheduledMessages[id].scheduledFor < t

IsDue(id, t) ==
    /\ scheduledMessages[id].status = "pending"
    /\ scheduledMessages[id].scheduledFor <= t

DueIds(t) == {id \in DOMAIN scheduledMessages : IsDue(id, t)}

\* the orders .sort({scheduledFor: 1}) may return (ties in any order)
SortedAsc_Unsorted(q) == TRUE

SortedAsc(q) ==
    \A i \in 1..Len(q), j \in 1..Len(q) :
        i < j => scheduledMessages[q[i]].scheduledFor
                    <= scheduledMessages[q[j]].scheduledFor

Orderings(S) ==
    {q \in [1..Cardinality(S) -> S] : \A i, j \in 1..Cardinality(S) : i # j => q[i] # q[j]}

processScheduledMessages(w, ok) ==
    /\ worker[w].kind = "idle"
    /\ runs' = Sat(runs, MaxRuns)
    /\ Storage(ok)
    /\ \/ \* the find() query throws: caught and logged, the tick ends
          /\ ~ok
          /\ worker' = [worker EXCEPT ![w] = IdleWorker("error", 0)]
       \/ \* no due message: return
          /\ ok
          /\ DueIds(now) = {}
          /\ worker' = [worker EXCEPT ![w] = IdleWorker("none", 0)]
       \/ /\ ok
          /\ DueIds(now) # {}
          /\ \E q \in Orderings(DueIds(now)) :
                /\ SortedAsc(q)
                /\ worker' = [worker EXCEPT ![w] =
                       [IdleWorker("none", 0) EXCEPT !.kind = "tick", !.queue = q,
                                                     !.idx = 1, !.pc = "findById"]]
    /\ UNCHANGED <<now, scheduledMessages, slackUsers, issued, canceller,
                   sendCalls, delivered, cancelledOk>>

\* sendNow(id): sendScheduledMessage(messageId) called out of band
sendNow(w, id) ==
    /\ worker[w].kind = "idle"
    /\ runs' = Sat(runs, MaxRuns)
    /\ worker' = [worker EXCEPT ![w] =
           [IdleWorker("none", 0) EXCEPT !.kind = "sendNow", !.queue = <<id>>,
                                         !.idx = 1, !.pc = "findById"]]
    /\ UNCHANGED <<now, scheduledMessages, slackUsers, issued, canceller,
                   sendCalls, delivered, cancelledOk, faults>>

\* ----------------------------------------------- sendScheduledMessage steps
\* const message = await findById(messageId); the pending check; the
\* in-memory message.status = 'sent', message.sentAt = new Date()
PendingCheck_NoStatus(id) == Exists(id)

\* if (!message || message.status !== 'pending') return;
PendingCheck(id) == Exists(id) /\ scheduledMessages[id].status = "pending"

sendScheduledMessage_findById(w, ok) ==
    /\ worker[w].pc = "findById"
    /\ Storage(ok)
    /\ \/ /\ ~ok                                                 \* findById throws
          /\ worker' = [worker EXCEPT ![w] = EndStep(w, "error")]
       \/ /\ ok
          /\ ~PendingCheck(CurId(w))
          /\ worker' = [worker EXCEPT ![w] = EndStep(w, "skipped")]
       \/ /\ ok
          /\ PendingCheck(CurId(w))
          /\ worker' = [worker EXCEPT ![w].pc = "ensureValidToken",
                                      ![w].sentAt = Stamp]
    /\ UNCHANGED <<now, scheduledMessages, slackUsers, issued, canceller,
                   sendCalls, delivered, cancelledOk, runs>>

\* ensureValidToken: findOne({id: userId}) and the expiry check
Expired_Strict(user, t) == user.tokenExpiresAt # NoDate /\ user.tokenExpiresAt < t

Expired(user, t) == user.tokenExpiresAt # NoDate /\ user.tokenExpiresAt <= t

ensureValidToken_findOne(w, ok) ==
    LET u == scheduledMessages[CurId(w)].userId IN
    /\ worker[w].pc = "ensureValidToken"
    /\ Storage(ok)
    /\ \/ /\ ~ok                                                 \* findOne throws
          /\ worker' = [worker EXCEPT ![w] = Fail(w, ErrStorage)]
       \/ /\ ok
          /\ UserRows(u) = {}
          /\ worker' = [worker EXCEPT ![w] = Fail(w, ErrUserNotFound)]
       \/ /\ ok
          /\ UserRows(u) # {}
          /\ Expired(FindUser(u), now)
          /\ FindUser(u).refreshToken = NoToken
          /\ worker' = [worker EXCEPT ![w] = Fail(w, ErrTokenExpired)]
       \/ /\ ok
          /\ UserRows(u) # {}
          /\ Expired(FindUser(u), now)
          /\ FindUser(u).refreshToken # NoToken
          /\ worker' = [worker EXCEPT ![w].pc = "refresh",
                                      ![w].token = FindUser(u).refreshToken]
       \/ /\ ok
          /\ UserRows(u) # {}
          /\ ~Expired(FindUser(u), now)
          /\ worker' = [worker EXCEPT ![w].pc = "sendMessage",
                                      ![w].token = FindUser(u).accessToken]
    /\ UNCHANGED <<now, scheduledMessages, slackUsers, issued, canceller,
                   sendCalls, delivered, cancelledOk, runs>>

refreshAccessToken_ClearOnFail(w, ok, newRefresh, expiresIn) ==
    /\ worker[w].pc = "refresh"
    /\ \/ /\ ~ok
          /\ worker' = [worker EXCEPT ![w] = Fail(w, ErrRefresh)]
          /\ slackUsers' =
                {IF r.id = scheduledMessages[CurId(w)].userId
                 THEN [r EXCEPT !.refreshToken = NoToken] ELSE r : r \in slackUsers}
          /\ UNCHANGED issued
       \/ /\ ok
          /\ issued' = issued + 1
          /\ worker' = [worker EXCEPT
                ![w].pc = "userSave",
                ![w].token = issued + 1,
                ![w].upd = <<issued + 1,
                             IF newRefresh THEN issued + 1 ELSE NoToken,
                             IF expiresIn > 0 THEN now + expiresIn ELSE NoDate>>]
          /\ UNCHANGED slackUsers
    /\ UNCHANGED <<now, scheduledMessages, canceller,
                   sendCalls, delivered, cancelledOk, runs, faults>>

\* refreshAccessToken(user.refreshToken) and the in-memory update of user:
\* upd holds the modified paths that user.save() will $set
refreshAccessToken(w, ok, newRefresh, expiresIn) ==
    /\ worker[w].pc = "refresh"
    /\ \/ /\ ~ok                        \* not ok or axios throws: ErrRefresh
          /\ worker' = [worker EXCEPT ![w] = Fail(w, ErrRefresh)]
          /\ UNCHANGED issued
       \/ /\ ok
          /\ issued' = issued + 1
          /\ worker' = [worker EXCEPT
                ![w].pc = "userSave",
                ![w].token = issued + 1,
                ![w].upd = <<issued + 1,
                             IF newRefresh THEN issued + 1 ELSE NoToken,
                             IF expiresIn > 0 THEN now + expiresIn ELSE NoDate>>]
    /\ UNCHANGED <<now, scheduledMessages, slackUsers, canceller,
                   sendCalls, delivered, cancelledOk, runs, faults>>

\* await user.save(): $set of the modified paths only
ApplyUpd_KeepAccess(user, upd) ==
    [user EXCEPT
       !.refreshToken   = IF upd[2] # NoToken THEN upd[2] ELSE @,
       !.tokenExpiresAt = IF upd[3] # NoDate THEN upd[3] ELSE @]

ApplyUpd_IfExpired(user, upd) ==
    IF user.tokenExpiresAt # NoDate /\ user.tokenExpiresAt <= now
    THEN [user EXCEPT
            !.accessToken    = upd[1],
            !.refreshToken   = IF upd[2] # NoToken THEN upd[2] ELSE @,
            !.tokenExpiresAt = IF upd[3] # NoDate THEN upd[3] ELSE @]
    ELSE user

ApplyUpd_Overwrite(user, upd) ==
    [user EXCEPT
       !.accessToken    = upd[1],
       !.refreshToken   = upd[2],
       !.tokenExpiresAt = upd[3]]

ApplyUpd(user, upd) ==
    [user EXCEPT
       !.accessToken    = upd[1],
       !.refreshToken   = IF upd[2] # NoToken THEN upd[2] ELSE @,
       !.tokenExpiresAt = IF upd[3] # NoDate THEN upd[3] ELSE @]

ensureValidToken_save(w, ok) ==
    LET u == scheduledMessages[CurId(w)].userId IN
    /\ worker[w].pc = "userSave"
    /\ Storage(ok)
    /\ \/ /\ ~ok                                                 \* save throws
          /\ worker' = [worker EXCEPT ![w] = Fail(w, ErrStorage)]
          /\ UNCHANGED slackUsers
       \/ /\ ok
          /\ slackUsers' = (slackUsers \ {FindUser(u)})
                               \cup {ApplyUpd(FindUser(u), worker[w].upd)}
          /\ worker' = [worker EXCEPT ![w].pc = "sendMessage", ![w].upd = <<>>]
    /\ UNCHANGED <<now, scheduledMessages, issued, canceller,
                   sendCalls, delivered, cancelledOk, runs>>

\* slackService.sendMessage(accessToken, channelId, message)
sendMessage(w) ==
    /\ worker[w].pc = "sendMessage"
    /\ sendCalls' = [sendCalls EXCEPT ![CurId(w)] = Sat(@, MaxSends)]
    /\ \/ /\ worker' = [worker EXCEPT ![w].pc = "save"]                 \* result.ok
          /\ delivered' = [delivered EXCEPT ![CurId(w)] = TRUE]
       \/ /\ worker' = [worker EXCEPT ![w] = Fail(w, ErrSendNotOk)]     \* ok = false
          /\ UNCHANGED delivered
       \/ /\ worker' = [worker EXCEPT ![w] = Fail(w, ErrSendThrow)]     \* postMessage throws
          /\ UNCHANGED delivered
    /\ UNCHANGED <<now, scheduledMessages, slackUsers, issued, canceller,
                   cancelledOk, runs, faults>>

\* if (success) await message.save(): $set {status: 'sent', sentAt}
sendScheduledMessage_save(w, ok) ==
    /\ worker[w].pc = "save"
    /\ Storage(ok)
    /\ \/ /\ ~ok                                                 \* save throws
          /\ worker' = [worker EXCEPT ![w] = Fail(w, ErrStorage)]
          /\ UNCHANGED scheduledMessages
       \/ /\ ok
          /\ scheduledMessages' = [scheduledMessages EXCEPT
                 ![CurId(w)].status = "sent",
                 ![CurId(w)].sentAt = worker[w].sentAt]
          /\ worker' = [worker EXCEPT ![w] = EndStep(w, "sent")]
    /\ UNCHANGED <<now, slackUsers, issued, canceller,
                   sendCalls, delivered, cancelledOk, runs>>

\* catch: message.status = 'failed'; message.error = msg; await message.save():
\* $set {status: 'failed', sentAt, error}
FailedStatus_Pending == "pending"

FailedStatus == "failed"

FailedDoc_Unsaved(doc, w) == doc

FailedDoc_Truncate(doc, w) ==
    [doc EXCEPT !.status = FailedStatus, !.sentAt = worker[w].sentAt,
                !.error = worker[w].err, !.message = 0]

FailedDoc_NoError(doc, w) ==
    [doc EXCEPT !.status = FailedStatus, !.sentAt = worker[w].sentAt]

FailedDoc(doc, w) ==
    [doc EXCEPT !.status = FailedStatus, !.sentAt = worker[w].sentAt,
                !.error = worker[w].err]

sendScheduledMessage_saveFailed(w, ok) ==
    /\ worker[w].pc = "saveFailed"
    /\ Storage(ok)
    /\ \/ /\ ~ok                                                 \* save throws
          /\ worker' = [worker EXCEPT ![w] = EndStep(w, "error")]
          /\ UNCHANGED scheduledMessages
       \/ /\ ok
          /\ scheduledMessages' = [scheduledMessages EXCEPT
                 ![CurId(w)] = FailedDoc(@, w)]
          /\ worker' = [worker EXCEPT ![w] = EndStep(w, "failed")]
    /\ UNCHANGED <<now, slackUsers, issued, canceller,
                   sendCalls, delivered, cancelledOk, runs>>

\* ------------------------------------------------ cancelScheduledMessage
\* findOne({_id, userId, status: 'pending'}); if (!message) return false
CancelMatch(id, u) ==
    /\ Exists(id)
    /\ scheduledMessages[id].userId = u
    /\ scheduledMessages[id].status = "pending"

cancelScheduledMessage_findOne(c, id, u, ok) ==
    /\ canceller[c].pc = "idle"
    /\ Storage(ok)
    /\ \/ /\ ~ok                                                 \* findOne throws
          /\ UNCHANGED canceller
       \/ /\ ok
          /\ ~CancelMatch(id, u)
          /\ UNCHANGED canceller
       \/ /\ ok
          /\ CancelMatch(id, u)
          /\ canceller' = [canceller EXCEPT ![c] =
                               [pc |-> "save", id |-> id, userId |-> u]]
    /\ UNCHANGED <<now, scheduledMessages, slackUsers, issued, worker,
                   sendCalls, delivered, cancelledOk, runs>>

\* message.status = 'cancelled'; await message.save(); return true
cancelScheduledMessage_save(c, ok) ==
    /\ canceller[c].pc = "save"
    /\ Storage(ok)
    /\ canceller' = [canceller EXCEPT ![c] = IdleCanceller]
    /\ \/ /\ ~ok                                                 \* save throws
          /\ UNCHANGED <<scheduledMessages, cancelledOk>>
       \/ /\ ok
          /\ scheduledMessages' = [scheduledMessages EXCEPT
                 ![canceller[c].id].status = "cancelled"]
          /\ cancelledOk' = [cancelledOk EXCEPT ![canceller[c].id] = TRUE]
    /\ UNCHANGED <<now, slackUsers, issued, worker, sendCalls, delivered, runs>>

\* ----------------------------------------------- getUserScheduledMessages
\* find({userId, status: {$in: ['pending', 'sent', 'failed']}})
ListedStatuses == {"pending", "sent", "failed"}

ListedIds_AnyOwner(u) ==
    {id \in DOMAIN scheduledMessages :
        scheduledMessages[id].status \in ListedStatuses}

ListedIds(u) ==
    {id \in DOMAIN scheduledMessages :
        /\ scheduledMessages[id].userId = u
        /\ scheduledMessages[id].status \in ListedStatuses}

\* the orders .sort({scheduledFor: -1}) may return (ties in any order)
SortedDesc(q) ==
    \A i \in 1..Len(q), j \in 1..Len(q) :
        i < j => scheduledMessages[q[i]].scheduledFor
                    >= scheduledMessages[q[j]].scheduledFor

\* messages.map(msg => ({id, message, scheduledFor, status, sentAt, error}))
ListEntry(id) ==
    [id           |-> id,
     message      |-> scheduledMessages[id].message,
     scheduledFor |-> scheduledMessages[id].scheduledFor,
     status       |-> scheduledMessages[id].status,
     sentAt       |-> scheduledMessages[id].sentAt,
     error        |-> scheduledMessages[id].error]

\* the lists getUserScheduledMessages(userId) may return
getUserScheduledMessages(u) ==
    {[i \in 1..Len(q) |-> ListEntry(q[i])] :
        q \in {o \in Orderings(ListedIds(u)) : SortedDesc(o)}}

\* GET /messages/stats: counts over the list of getUserScheduledMessages
CountStatus(list, st) == Cardinality({i \in DOMAIN list : list[i].status = st})

stats(list) ==
    [total     |-> Len(list),
     pending   |-> CountStatus(list, "pending"),
     sent      |-> CountStatus(list, "sent"),
     failed    |-> CountStatus(list, "failed"),
     cancelled |-> CountStatus(list, "cancelled")]

\* ------------------------------------------ POST /messages/send-now/:messageId
\* userMessages.find(msg => msg.id === messageId && msg.status === 'pending')
\* over the list of getUserScheduledMessages(userId)
OwnPending_AnyOwner(u, id) ==
    Exists(id) /\ scheduledMessages[id].status = "pending"

OwnPending(u, id) ==
    \E list \in getUserScheduledMessages(u) : \E i \in DOMAIN list :
        list[i].id = id /\ list[i].status = "pending"

\* The request of user u for id: the list query throws (answer 500), no own
\* pending entry (answer 404), or sendScheduledMessage(id) is called; when
\* that call returns the route answers success.  The answers 500 and 404
\* are kept in outcome, with the id and the user of the request.
sendNowRoute(w, u, id, ok) ==
    /\ worker[w].kind = "idle"
    /\ runs' = Sat(runs, MaxRuns)
    /\ Storage(ok)
    /\ \/ /\ ~ok
          /\ worker' = [worker EXCEPT ![w] =
                 [IdleWorker("error500", id) EXCEPT !.lastKind = "sendNow",
                                                    !.caller = u]]
       \/ /\ ok
          /\ ~OwnPending(u, id)
          /\ worker' = [worker EXCEPT ![w] =
                 [IdleWorker("notFound", id) EXCEPT !.lastKind = "sendNow",
                                                    !.caller = u]]
       \/ /\ ok
          /\ OwnPending(u, id)
          /\ worker' = [worker EXCEPT ![w] =
                 [IdleWorker("none", 0) EXCEPT !.kind = "sendNow", !.queue = <<id>>,
                                               !.idx = 1, !.pc = "findById",
                                               !.caller = u]]
    /\ UNCHANGED <<now, scheduledMessages, slackUsers, issued, canceller,
                   sendCalls, delivered, cancelledOk>>

\* ------------------------------------------------------------ specification
\* The environment of one behaviour: at most MaxRuns ticks and send-now calls
\* are started and at most MaxFaults storage operations throw.
MayRun == runs < MaxRuns
May(ok, maxFaults) == ok \/ faults < maxFaults

Owners == {"U1"}       \* the principals that schedule and authorize

\* the ids a caller may name: every stored _id and one that is not stored
Ids == 1..(Len(scheduledMessages) + 1)

\* Steps of worker w, with storage outcomes within the budget
WorkerStep(w, maxFaults) ==
    \/ \E ok \in BOOLEAN : May(ok, maxFaults) /\ sendScheduledMessage_findById(w, ok)
    \/ \E ok \in BOOLEAN : May(ok, maxFaults) /\ ensureValidToken_findOne(w, ok)
    \/ \E ok \in BOOLEAN, r \in BOOLEAN, e \in {0, 1} :
          (ok \/ (~r /\ e = 0)) /\ (ok => issued < MaxTokens)
             /\ refreshAccessToken(w, ok, r, e)
    \/ \E ok \in BOOLEAN : May(ok, maxFaults) /\ ensureValidToken_save(w, ok)
    \/ sendMessage(w)
    \/ \E ok \in BOOLEAN : May(ok, maxFaults) /\ sendScheduledMessage_save(w, ok)
    \/ \E ok \in BOOLEAN : May(ok, maxFaults) /\ sendScheduledMessage_saveFailed(w, ok)

\* the bodies a caller submits: the longest valid one and one too long
Bodies == {MessageMaxLength, MessageMaxLength + 1}

Environment(maxRecords, owners, teams, bodies, maxTokens) ==
    \/ now < MaxTime /\ clockTick
    \/ \E u \in owners, team \in teams, r \in BOOLEAN, e \in {0, 1} :
          issued < maxTokens /\ authCallback(u, team, r, e)
    \/ \E u \in owners, t \in 0..MaxTime, m \in bodies :
          Len(scheduledMessages) < maxRecords /\ scheduleMessage(u, t, m)

\* Spec: ticks, send-now calls and cancels running concurrently on one record
Next ==
    \/ Environment(MaxRecords, Owners, {"T1"}, Bodies, MaxTokens)
    \/ \E w \in Workers, ok \in BOOLEAN :
          MayRun /\ May(ok, MaxFaults) /\ processScheduledMessages(w, ok)
    \/ \E w \in Workers, id \in Ids : MayRun /\ sendNow(w, id)
    \/ \E w \in Workers : WorkerStep(w, MaxFaults)
    \/ \E c \in Cancellers, id \in Ids, u \in Users, ok \in BOOLEAN :
          May(ok, MaxFaults) /\ cancelScheduledMessage_findOne(c, id, u, ok)
    \/ \E c \in Cancellers, ok \in BOOLEAN : May(ok, MaxFaults) /\ cancelScheduledMessage_save(c, ok)

Spec == Init /\ [][Next]_vars

\* SpecTick: one poller whose ticks do not overlap, several records per tick
Poller == "w1"

NextTick ==
    \/ Environment(TickRecords, Owners, {"T1"}, Bodies, MaxTokens)
    \/ \E ok \in BOOLEAN : MayRun /\ May(ok, MaxFaults) /\ processScheduledMessages(Poller, ok)
    \/ \E id \in Ids : MayRun /\ sendNow(Poller, id)
    \/ WorkerStep(Poller, MaxFaults)

SpecTick == Init /\ [][NextTick]_vars

\* SpecApi: two principals schedule bodies of several lengths, list and
\* cancel while one poller delivers; storage does not fail
NextApi ==
    \/ Environment(ApiRecords, Users, {"T1"}, Bodies \cup {1}, ApiTokens)
    \/ runs < ApiRuns /\ processScheduledMessages(Poller, TRUE)
    \/ WorkerStep(Poller, 0)
    \/ \E c \in Cancellers, id \in Ids, u \in Users :
          cancelScheduledMessage_findOne(c, id, u, TRUE)
    \/ \E c \in Cancellers : cancelScheduledMessage_save(c, TRUE)

SpecApi == Init /\ [][NextApi]_vars

\* SpecAuth: two principals authorize and re-authorize in two workspaces
\* while one poller resolves and refreshes credentials
NextAuth ==
    \/ Environment(MaxRecords, Users, Teams, Bodies, MaxTokens)
    \/ \E ok \in BOOLEAN :
          MayRun /\ May(ok, MaxFaults) /\ processScheduledMessages(Poller, ok)
    \/ \E id \in Ids : MayRun /\ sendNow(Poller, id)
    \/ WorkerStep(Poller, MaxFaults)

SpecAuth == Init /\ [][NextAuth]_vars

\* SpecRefresh: one principal authorizes once and two send-now calls for its
\* record run concurrently, each resolving the credential; storage does not
\* fail.  Every access token but the first is issued by a refresh.
NextRefresh ==
    \/ Environment(MaxRecords, Owners, {"T1"}, Bodies, 1)
    \/ \E w \in Workers, id \in Ids : MayRun /\ sendNow(w, id)
    \/ \E w \in Workers : sendScheduledMessage_findById(w, TRUE)
    \/ \E w \in Workers : ensureValidToken_findOne(w, TRUE)
    \/ \E w \in Workers, ok \in BOOLEAN, r \in BOOLEAN, e \in {0, 1} :
          (ok \/ (~r /\ e = 0)) /\ (ok => issued < RefreshTokens)
             /\ refreshAccessToken(w, ok, r, e)
    \/ \E w \in Workers : ensureValidToken_save(w, TRUE)
    \/ \E w \in Workers : sendMessage(w)
    \/ \E w \in Workers : sendScheduledMessage_save(w, TRUE)
    \/ \E w \in Workers : sendScheduledMessage_saveFailed(w, TRUE)

SpecRefresh == Init /\ [][NextRefresh]_vars

\* SpecRoute: two principals schedule, cancel and force-send through the
\* routes; ticks and send-now requests run one at a time, cancels at any
\* time; storage does not fail
Handler == "w2"

NextRoute ==
    \/ Environment(TickRecords, Users, {"T1"}, Bodies, ApiTokens)
    \/ runs < RouteRuns /\ processScheduledMessages(Handler, TRUE)
    \/ \E u \in Users, id \in Ids :
          runs < RouteRuns /\ sendNowRoute(Handler, u, id, TRUE)
    \/ WorkerStep(Handler, 0)
    \/ \E c \in Cancellers, id \in Ids, u \in Users :
          cancelScheduledMessage_findOne(c, id, u, TRUE)
    \/ \E c \in Cancellers : cancelScheduledMessage_save(c, TRUE)

SpecRoute == Init /\ [][NextRoute]_vars

\* SpecLive: the cron job fires again and again (setupScheduler), the event
\* loop resumes every awaited call, the clock advances, and storage throws
\* only finitely often; cancels may come at any time
NextLive ==
    \/ Environment(MaxRecords, Owners, {"T1"}, Bodies, MaxTokens)
    \/ \E ok \in BOOLEAN :
          May(ok, MaxFaults) /\ processScheduledMessages(Poller, ok)
    \/ WorkerStep(Poller, MaxFaults)
    \/ \E c \in Cancellers, id \in Ids, u \in Users, ok \in BOOLEAN :
          May(ok, MaxFaults) /\ cancelScheduledMessage_findOne(c, id, u, ok)
    \/ \E c \in Cancellers, ok \in BOOLEAN :
          May(ok, MaxFaults) /\ cancelScheduledMessage_save(c, ok)

SpecLive ==
    /\ Init /\ [][NextLive]_vars
    /\ WF_vars(now < MaxTime /\ clockTick)
    /\ WF_vars(\E ok \in BOOLEAN :
                  May(ok, MaxFaults) /\ processScheduledMessages(Poller, ok))
    /\ WF_vars(WorkerStep(Poller, MaxFaults))

TypeOK ==
    /\ now \in 0..MaxTime
    /\ Len(scheduledMessages) <= TickRecords
    /\ issued \in 0..RefreshTokens

\* ======================================================================
\* Properties
\* ======================================================================
Status(id) == scheduledMessages[id].status
Stored == DOMAIN scheduledMessages
Acts(w) == worker'[w] # worker[w]           \* the step is a step of worker w
InStep(w) == worker[w].pc \notin {"idle"}   \* w is inside sendScheduledMessage

\* C1: over any interleaving of poller ticks and send-now calls on the same
\* id, the external send is invoked at most once for each record.
C1_AtMostOneSend == \A id \in Stored : sendCalls[id] <= 1

\* C2: a cancel that returned true and an external send never both happen
\* for the same record.
C2_CancelXorSend == \A id \in Stored : ~(cancelledOk[id] /\ sendCalls[id] >= 1)

\* C3: sendScheduledMessage on an id that is not stored, or whose stored
\* status is not pending, returns without resolving a credential, without
\* calling the provider and without writing to either collection.
C3_SkipIsNoOp ==
    [][\A w \in Workers :
         (/\ worker[w].pc = "findById"
          /\ Acts(w)
          /\ \/ CurId(w) \notin Stored
             \/ Status(CurId(w)) \in Terminal)
         => /\ worker'[w].pc \in {"findById", "idle"}
            /\ worker'[w].outcome \in {"skipped", "error"}
            /\ worker'[w].lastId = CurId(w)
            /\ UNCHANGED <<scheduledMessages, slackUsers, issued,
                           sendCalls, delivered>>]_vars

\* a failed record was handed to sendScheduledMessage again and was skipped
C3_Witness ==
    \E w \in Workers :
        /\ worker[w].outcome = "skipped"
        /\ worker[w].lastId \in Stored
        /\ Status(worker[w].lastId) = "failed"
        /\ sendCalls[worker[w].lastId] = 1

\* C5: once the stored status of a record is sent, failed or cancelled it
\* never changes again.
C5_TerminalIsFinal ==
    [][\A id \in Stored :
         Status(id) \in Terminal => scheduledMessages'[id].status = Status(id)]_vars

\* C6: a stored record has sentAt set if and only if its status is sent.
C6_SentAtIffSent ==
    \A id \in Stored :
        (scheduledMessages[id].sentAt # NoStamp) <=> (Status(id) = "sent")

\* C7: a stored record has error set only if its status is failed.
C7_ErrorOnlyIfFailed ==
    \A id \in Stored :
        scheduledMessages[id].error # NoError => Status(id) = "failed"

Range(q) == {q[i] : i \in DOMAIN q}
TickEnds(w) == worker[w].kind = "tick" /\ worker'[w].kind = "idle"

AuthFailure(w) == worker[w].pc = "saveFailed" /\ worker[w].err \in AuthErrors
SendFailure(w) == worker[w].pc = "saveFailed" /\ worker[w].err \in SendErrors

\* the credential of the owner of the record w works on is expired and has
\* no refresh token
ExpiredNoRefresh(w) ==
    LET u == scheduledMessages[CurId(w)].userId IN
    /\ UserRows(u) # {}
    /\ FindUser(u).tokenExpiresAt # NoDate
    /\ FindUser(u).tokenExpiresAt <= now
    /\ FindUser(u).refreshToken = NoToken

\* an auth error arises in ensureValidToken, before any call of the provider's
\* send, and leads to the catch block
AuthErrorArises(w) ==
    /\ (worker'[w].err \in AuthErrors /\ worker[w].err \notin AuthErrors)
          => /\ worker[w].pc \in {"ensureValidToken", "refresh"}
             /\ worker'[w].pc = "saveFailed"
             /\ UNCHANGED <<sendCalls, delivered, scheduledMessages>>
    /\ (worker[w].pc = "ensureValidToken" /\ Acts(w) /\ faults' = faults
          /\ ExpiredNoRefresh(w))
          => worker'[w].pc = "saveFailed" /\ worker'[w].err = ErrTokenExpired
    /\ worker[w].err \in AuthErrors => worker[w].pc = "saveFailed"

SendErrorArises(w) ==
    /\ (worker'[w].err \in SendErrors /\ worker[w].err \notin SendErrors)
          => /\ worker[w].pc = "sendMessage"
             /\ worker'[w].pc = "saveFailed"
             /\ UNCHANGED <<delivered, scheduledMessages>>
    /\ (worker[w].pc = "sendMessage" /\ Acts(w))
          => \/ worker'[w].pc = "save" /\ delivered'[CurId(w)]
             \/ worker'[w].pc = "saveFailed" /\ worker'[w].err \in SendErrors
    /\ worker[w].err \in SendErrors => worker[w].pc = "saveFailed"

StepEnds(w) ==
    /\ worker[w].kind = "tick"
    /\ worker'[w].kind = "idle" \/ worker'[w].idx # worker[w].idx

C10_TickGoesOn ==
    /\ [](\A w \in Workers :
            worker[w].kind = "idle" => ENABLED processScheduledMessages(w, TRUE))
    /\ [][\A w \in Workers :
            StepEnds(w) =>
               IF worker[w].idx < Len(worker[w].queue)
               THEN /\ worker'[w].kind = "tick"
                    /\ worker'[w].queue = worker[w].queue
                    /\ worker'[w].idx = worker[w].idx + 1
                    /\ worker'[w].pc = "findById"
               ELSE worker'[w].kind = "idle"]_vars

\* a tick is processing its second due record after the first one failed
\* with a storage error
C10_Witness ==
    /\ worker[Poller].kind = "tick"
    /\ worker[Poller].idx = 2
    /\ worker[Poller].pc = "sendMessage"
    /\ worker[Poller].outcome = "error"
    /\ worker[Poller].errs = {worker[Poller].queue[1]}
    /\ Status(worker[Poller].queue[1]) = "pending"

\* some list getUserScheduledMessages(u) can return shows record id with
\* status st, sentAt at and error e
Shows(list, id, st, at, e) ==
    \E i \in DOMAIN list :
        /\ list[i].id = id
        /\ list[i].status = st
        /\ list[i].sentAt = at
        /\ list[i].error = e

\* C11: when a poller tick completes, every record its query returned (pending
\* and due when the tick started) for which the credential was resolved and
\* the external send answered ok, and which no cancel has cancelled, is
\* stored with status sent, sentAt set and no error, and the list of its
\* owner shows it so.
C11_DeliveredIsListedSent ==
    [][\A w \in Workers :
         TickEnds(w) =>
            \A id \in Range(worker[w].queue) :
                (delivered'[id] /\ ~cancelledOk'[id]) =>
                   /\ scheduledMessages'[id].status = "sent"
                   /\ scheduledMessages'[id].sentAt = Stamp
                   /\ scheduledMessages'[id].error = NoError
                   /\ \A list \in getUserScheduledMessages(scheduledMessages[id].userId)' :
                         Shows(list, id, "sent", Stamp, NoError)]_vars

Inserts == Len(scheduledMessages') # Len(scheduledMessages)

\* C13: scheduleMessage with scheduledFor <= now (equal included) throws and
\* stores nothing, with scheduledFor > now it is accepted; and every step
\* that inserts a document inserts exactly one, with status pending, a
\* scheduledFor later than now and an _id no stored document has, leaving
\* the stored documents as they are.
C13_ScheduleValidatesTime ==
    /\ [](\A u \in Users, t \in 0..MaxTime :
            ENABLED scheduleMessage(u, t, MessageMaxLength) <=> t > now)
    /\ [][Inserts =>
            /\ Len(scheduledMessages') = Len(scheduledMessages) + 1
            /\ SubSeq(scheduledMessages', 1, Len(scheduledMessages))
                  = scheduledMessages
            /\ Len(scheduledMessages') \notin Stored
            /\ scheduledMessages'[Len(scheduledMessages')].status = "pending"
            /\ scheduledMessages'[Len(scheduledMessages')].scheduledFor > now]_vars

\* a second record was accepted after the clock had advanced, with
\* scheduledFor later than now, while a request for now itself is refused
C13_Witness ==
    /\ now = 1
    /\ Len(scheduledMessages) = 2
    /\ scheduledMessages[1].scheduledFor = 1
    /\ scheduledMessages[2].scheduledFor = 2
    /\ scheduledMessages[2].status = "pending"
    /\ ~ENABLED scheduleMessage("U1", now, MessageMaxLength)

\* canceller c stores 'cancelled' and returns true
CancelReturnsTrue(c) ==
    /\ canceller[c].pc = "save"
    /\ canceller'[c].pc = "idle"
    /\ faults' = faults

\* C14: a cancel call returns true and stores status cancelled only for a
\* record that is stored, is owned by the caller and has stored status
\* pending; no other step sets a status to cancelled, and a cancel call
\* changes nothing but the status of the record it names.
C14_CancelOnlyPendingOwned ==
    [][/\ \A c \in Cancellers :
            CancelReturnsTrue(c) =>
               /\ canceller[c].id \in Stored
               /\ scheduledMessages[canceller[c].id].userId = canceller[c].userId
               /\ Status(canceller[c].id) = "pending"
               /\ scheduledMessages' =
                     [scheduledMessages EXCEPT ![canceller[c].id].status = "cancelled"]
       /\ \A id \in Stored :
            (Status(id) # "cancelled" /\ scheduledMessages'[id].status = "cancelled")
               => \E c \in Cancellers : CancelReturnsTrue(c) /\ canceller[c].id = id]_vars

\* the principal whose credential worker w resolves
Owner(w) == scheduledMessages[CurId(w)].userId

\* C15: with a stored credential that is expired and has a refresh token,
\* ensureValidToken calls the provider's refresh with that token; when the
\* refresh succeeds the call returns the provider's new access token and the
\* stored credential holds that token at the return.  A call that finds the
\* stored credential not expired returns the stored access token, the one
\* the earlier call stored, without any refresh and without a write.
C15_RefreshStoredAndReused ==
    [][\A w \in Workers :
         /\ (/\ worker[w].pc = "ensureValidToken"
             /\ Acts(w)
             /\ faults' = faults
             /\ \E r \in slackUsers :
                   /\ r.id = Owner(w)
                   /\ r.tokenExpiresAt # NoDate
                   /\ r.tokenExpiresAt <= now
                   /\ r.refreshToken # NoToken)
               => /\ worker'[w].pc = "refresh"
                  /\ \E r \in slackUsers :
                        r.id = Owner(w) /\ worker'[w].token = r.refreshToken
         /\ (worker[w].pc = "refresh" /\ worker'[w].pc = "userSave")
               => /\ issued' = issued + 1
                  /\ worker'[w].token = issued'
         /\ (worker[w].pc = "userSave" /\ worker'[w].pc = "sendMessage")
               => /\ worker'[w].token = worker[w].token
                  /\ \E r \in slackUsers' : r.id = Owner(w)
                  /\ \A r \in slackUsers' :
                        r.id = Owner(w) => r.accessToken = worker[w].token
         /\ (/\ worker[w].pc = "ensureValidToken"
             /\ Acts(w)
             /\ faults' = faults
             /\ \E r \in slackUsers :
                   /\ r.id = Owner(w)
                   /\ (r.tokenExpiresAt = NoDate \/ r.tokenExpiresAt > now))
               => /\ worker'[w].pc = "sendMessage"
                  /\ \E r \in slackUsers :
                        r.id = Owner(w) /\ worker'[w].token = r.accessToken
                  /\ UNCHANGED <<slackUsers, issued>>]_vars

\* within one tick the credential was refreshed for the first due record and,
\* inside the new expiry window, the call for the second due record returned
\* the refreshed token without another refresh
C15_Witness ==
    /\ worker[Poller].kind = "tick"
    /\ worker[Poller].idx = 2
    /\ worker[Poller].pc = "sendMessage"
    /\ Status(worker[Poller].queue[1]) = "sent"
    /\ issued = 2
    /\ faults = 0
    /\ \E r \in slackUsers :
          /\ r.id = Owner(Poller)
          /\ r.accessToken = 2
          /\ r.refreshToken = 1
          /\ r.tokenExpiresAt > now
          /\ worker[Poller].token = r.accessToken

\* the number of stored records of principal u with status st
Owned(u, st) ==
    Cardinality({id \in Stored :
                    scheduledMessages[id].userId = u /\ Status(id) = st})

\* C16: the statistics of a principal are the per-status counts over all of
\* its stored records: pending, sent, failed and cancelled count its records
\* in each status and total is their sum.
C16_StatsCountAllStatuses ==
    \A u \in Users :
        \A list \in getUserScheduledMessages(u) :
            /\ stats(list).pending = Owned(u, "pending")
            /\ stats(list).sent = Owned(u, "sent")
            /\ stats(list).failed = Owned(u, "failed")
            /\ stats(list).cancelled = Owned(u, "cancelled")
            /\ stats(list).total = Owned(u, "pending") + Owned(u, "sent")
                                     + Owned(u, "failed") + Owned(u, "cancelled")

\* C17: getUserScheduledMessages(u) returns a list; each of its entries is a
\* stored record owned by u and carries that record's stored scheduledFor,
\* status, sentAt and error; the entries are in descending order of
\* scheduledFor; and which records are listed is determined by the records of
\* u alone (its pending, sent and failed records, each once).
C17_ListOwnSortedCurrent ==
    \A u \in Users :
        /\ getUserScheduledMessages(u) # {}
        /\ \A list \in getUserScheduledMessages(u) :
              /\ \A i \in DOMAIN list :
                    /\ list[i].id \in Stored
                    /\ scheduledMessages[list[i].id].userId = u
                    /\ list[i].scheduledFor = scheduledMessages[list[i].id].scheduledFor
                    /\ list[i].status = Status(list[i].id)
                    /\ list[i].sentAt = scheduledMessages[list[i].id].sentAt
                    /\ list[i].error = scheduledMessages[list[i].id].error
              /\ \A i \in DOMAIN list, j \in DOMAIN list :
                    /\ i < j => list[i].scheduledFor >= list[j].scheduledFor
                    /\ i # j => list[i].id # list[j].id
              /\ {list[i].id : i \in DOMAIN list}
                    = {id \in Stored :
                          /\ scheduledMessages[id].userId = u
                          /\ Status(id) \in {"pending", "sent", "failed"}}

\* U1 scheduled the record due first before the one due later, the first was
\* delivered, and the list of U1 shows the later one first and the sent one
\* with its sentAt, while the list of U2 is empty
C17_Witness ==
    /\ Len(scheduledMessages) = 2
    /\ scheduledMessages[1].userId = "U1"
    /\ scheduledMessages[2].userId = "U1"
    /\ scheduledMessages[1].scheduledFor < scheduledMessages[2].scheduledFor
    /\ Status(1) = "sent"
    /\ Status(2) = "pending"
    /\ getUserScheduledMessages("U1") = {<<ListEntry(2), ListEntry(1)>>}
    /\ ListEntry(1).sentAt = Stamp
    /\ getUserScheduledMessages("U2") = {<<>>}

\* C18: scheduleMessage with a body longer than MessageMaxLength is refused
\* and stores nothing, truncated or not; a body of exactly MessageMaxLength
\* (with a scheduledFor later than now) is accepted and stored at its full
\* length; so every stored record has a body of at most MessageMaxLength.
C18_BodyLimit ==
    /\ [](\A u \in Users, t \in 0..MaxTime, m \in Bodies \cup {1} :
            ENABLED scheduleMessage(u, t, m) <=> (t > now /\ m <= 4000))
    /\ [](\A id \in Stored : scheduledMessages[id].message <= 4000)
    /\ [][Inserts =>
            scheduledMessages'[Len(scheduledMessages')].message
               \in {m \in Bodies \cup {1} : m <= 4000}]_vars

\* a body of exactly 4000 characters and a short one are stored, and a
\* request with 4001 characters is refused
C18_Witness ==
    /\ now < MaxTime
    /\ Len(scheduledMessages) = 2
    /\ scheduledMessages[1].message = 4000
    /\ scheduledMessages[2].message = 1
    /\ ~ENABLED scheduleMessage("U1", MaxTime, 4001)
    /\ ENABLED scheduleMessage("U1", MaxTime, 4000)

\* the (id, teamId) pairs that have a stored credential
Credentials(rows) == {<<r.id, r.teamId>> : r \in rows}

\* C19: there is at most one stored credential per (id, teamId); no step
\* removes a credential; and a step that re-authorizes or refreshes a stored
\* credential changes that row in place, leaving the number of rows and
\* every other row as they are.
C19_OneCredentialPerPrincipal ==
    /\ [](\A u \in Users, t \in Teams :
            Cardinality({r \in slackUsers : r.id = u /\ r.teamId = t}) <= 1)
    /\ [][/\ Credentials(slackUsers) \subseteq Credentials(slackUsers')
           /\ Credentials(slackUsers') = Credentials(slackUsers)
                 => /\ Cardinality(slackUsers') = Cardinality(slackUsers)
                    /\ Cardinality(slackUsers' \ slackUsers) <= 1
           /\ \A w \in Workers :
                 (worker[w].pc = "userSave" /\ Acts(w))
                    => Credentials(slackUsers') = Credentials(slackUsers)]_vars

\* a principal has authorized twice in the same workspace and its single row
\* holds the tokens of the second authorization
C19_Witness ==
    /\ issued = 2
    /\ Cardinality(slackUsers) = 1
    /\ \E r \in slackUsers : r.accessToken = 2 /\ r.refreshToken = 2

\* C20: no step removes a record: every stored _id stays stored, and a record
\* whose stored status is cancelled stays stored with status cancelled.
C20_NeverRemoved ==
    [][\A id \in Stored :
         /\ id \in DOMAIN scheduledMessages'
         /\ Status(id) = "cancelled"
               => scheduledMessages'[id].status = "cancelled"]_vars

\* w has found its record pending and has not yet reached a write of it:
\* credential resolution or the external send is running
InFlight(w) ==
    worker[w].pc \in {"ensureValidToken", "refresh", "userSave", "sendMessage"}

\* C21: while the per-record step of a worker is between its pending check
\* and the end of the external send, the stored status of the record is not
\* pending and its stored sentAt is set (the provisional claim), so every
\* other reader of the store sees the record as taken.
C21_ClaimWrittenBeforeSend ==
    \A w \in Workers :
        InFlight(w) =>
            /\ Status(CurId(w)) # "pending"
            /\ scheduledMessages[CurId(w)].sentAt = Stamp

\* C22: once an external send for a record has succeeded, no later step
\* calls the external send for that record again, whatever storage writes
\* failed in between.
C22_NoSendAfterDelivery ==
    [][\A id \in Stored :
         delivered[id] => sendCalls'[id] = sendCalls[id]]_vars

\* the step sends record id or writes to it
Touches(id) ==
    \/ sendCalls'[id] # sendCalls[id]
    \/ scheduledMessages'[id] # scheduledMessages[id]

TickStarts(w) == worker[w].kind = "idle" /\ worker'[w].kind = "tick"

\* C23: the list a poller tick works on holds exactly the records that are
\* stored pending with scheduledFor <= now when the tick queries the store,
\* each once (scheduledFor = now included), and stays as it is during the
\* tick; a step of a tick sends or writes only the record of its list it is
\* working on, whose scheduledFor is not later than now; and a send for a
\* record whose scheduledFor is later than now is a step of a send-now call.
C23_TickTakesPendingDue ==
    [][/\ \A w \in Workers :
            /\ TickStarts(w) =>
                  /\ Range(worker'[w].queue)
                        = {id \in Stored : /\ Status(id) = "pending"
                                           /\ scheduledMessages[id].scheduledFor <= now}
                  /\ Len(worker'[w].queue) = Cardinality(Range(worker'[w].queue))
            /\ (worker[w].kind = "idle" /\ Acts(w) /\ faults' = faults
                  /\ \E id \in Stored : /\ Status(id) = "pending"
                                         /\ scheduledMessages[id].scheduledFor <= now)
                  => worker'[w].kind # "idle"
            /\ (worker[w].kind = "tick" /\ worker'[w].kind = "tick")
                  => worker'[w].queue = worker[w].queue
            /\ (worker[w].kind = "tick" /\ Acts(w))
                  => \A id \in Stored :
                        Touches(id) =>
                           /\ id = CurId(w)
                           /\ scheduledMessages[id].scheduledFor <= now
       /\ \A id \in Stored :
            (sendCalls'[id] # sendCalls[id]
               /\ scheduledMessages[id].scheduledFor > now)
               => \E w \in Workers : worker[w].kind = "sendNow" /\ Acts(w)]_vars

\* a tick is sending a record whose scheduledFor equals the time of the tick
C23_Witness ==
    \E w \in Workers :
        /\ worker[w].kind = "tick"
        /\ worker[w].pc = "sendMessage"
        /\ scheduledMessages[CurId(w)].scheduledFor = now
        /\ now = MaxTime

\* the list of tick w is in ascending order of scheduledFor
QueueAscending(w) ==
    \A i \in DOMAIN worker[w].queue, j \in DOMAIN worker[w].queue :
        i < j => scheduledMessages[worker[w].queue[i]].scheduledFor
                    <= scheduledMessages[worker[w].queue[j]].scheduledFor

Resolves(w, r) ==
    /\ worker[w].pc = "ensureValidToken"
    /\ Acts(w)
    /\ faults' = faults
    /\ r \in slackUsers
    /\ r.id = Owner(w)

\* C25: ensureValidToken on a stored credential whose tokenExpiresAt is
\* absent or later than now returns the stored accessToken, calls no refresh
\* and leaves the stored credential unchanged; a credential whose
\* tokenExpiresAt equals now is expired: its accessToken is not returned, the
\* call goes to the refresh or, without a refresh token, throws.
C25_UnexpiredReturnedAsIs ==
    [][\A w \in Workers : \A r \in slackUsers :
         Resolves(w, r) =>
            /\ (r.tokenExpiresAt = NoDate \/ r.tokenExpiresAt > now)
                  => /\ worker'[w].pc = "sendMessage"
                     /\ worker'[w].token = r.accessToken
                     /\ worker'[w].err = NoError
                     /\ UNCHANGED <<slackUsers, issued>>
            /\ (r.tokenExpiresAt # NoDate /\ r.tokenExpiresAt = now)
                  => /\ worker'[w].pc \in {"refresh", "saveFailed"}
                     /\ worker'[w].pc = "refresh" <=> r.refreshToken # NoToken
                     /\ worker'[w].pc = "saveFailed"
                           => worker'[w].err = ErrTokenExpired
                     /\ UNCHANGED <<slackUsers, issued>>]_vars

\* a call found the stored tokenExpiresAt equal to now and is about to call
\* the refresh
C25_Witness ==
    \E w \in Workers : \E r \in slackUsers :
        /\ worker[w].pc = "refresh"
        /\ r.id = Owner(w)
        /\ r.tokenExpiresAt = now
        /\ worker[w].token = r.refreshToken
        /\ issued = 1

\* C26: user.save() after a successful refresh stores the new accessToken,
\* stores refreshToken and tokenExpiresAt only if the provider issued them and
\* otherwise leaves the stored values; the refreshed token is returned (the
\* call goes on to the send) only by the step of a successful save and is
\* then the stored accessToken; a save that throws stores nothing and makes
\* the call fail without a token.
C26_RefreshPersistedBeforeReturn ==
    [][\A w \in Workers :
         /\ (worker[w].pc = "refresh" /\ Acts(w)) => worker'[w].pc # "sendMessage"
         /\ (worker[w].pc = "userSave" /\ Acts(w)) =>
              \E old \in UserRows(Owner(w)) :
                 LET upd == worker[w].upd IN
                 IF faults' = faults
                 THEN /\ \E new \in slackUsers' :
                            /\ slackUsers' = (slackUsers \ {old}) \cup {new}
                            /\ new.id = old.id /\ new.teamId = old.teamId
                            /\ new.accessToken = upd[1]
                            /\ new.refreshToken =
                                  IF upd[2] # NoToken THEN upd[2]
                                  ELSE old.refreshToken
                            /\ new.tokenExpiresAt =
                                  IF upd[3] # NoDate THEN upd[3]
                                  ELSE old.tokenExpiresAt
                            /\ worker'[w].token = new.accessToken
                      /\ worker'[w].pc = "sendMessage"
                 ELSE /\ UNCHANGED slackUsers
                      /\ worker'[w].pc = "saveFailed"
                      /\ worker'[w].err = ErrStorage]_vars

\* a refresh that issued neither a refresh token nor an expiry has been saved:
\* the stored row holds the new access token next to the refresh token and
\* the (past) expiry it had, and the call is about to send with the new token
C26_Witness ==
    \E w \in Workers : \E r \in slackUsers :
        /\ worker[w].pc = "sendMessage"
        /\ r.id = Owner(w)
        /\ r.accessToken = 2 /\ worker[w].token = 2
        /\ r.refreshToken = 1
        /\ r.tokenExpiresAt # NoDate /\ r.tokenExpiresAt <= now

\* C27: the expiry check and the refresh of ensureValidToken are not atomic
\* per principal; when a call saves its refreshed credential, whatever another
\* call for the same principal has refreshed or saved meanwhile, the stored
\* credential becomes that of the saving call: its access token, and its
\* refresh token and expiry where the provider issued them; the access token
\* another call saved before is no longer stored.
C27_LastSaveWins ==
    [][\A w \in Workers :
         (worker[w].pc = "userSave" /\ Acts(w) /\ faults' = faults) =>
            \A r \in slackUsers' : r.id = Owner(w) =>
               /\ r.accessToken = worker[w].upd[1]
               /\ worker[w].upd[2] # NoToken => r.refreshToken = worker[w].upd[2]
               /\ worker[w].upd[3] # NoDate => r.tokenExpiresAt = worker[w].upd[3]
               /\ \A v \in Workers \ {w} :
                     worker[v].pc \in {"userSave", "sendMessage", "save"}
                        => r.accessToken # worker[v].token]_vars

\* Two calls for the same principal have both refreshed: v has saved access
\* token 2 with an expiry still ahead, and w, which therefore found the
\* credential expired before v saved, holds access token 3 from its own
\* refresh of the same refresh token and is about to save it.
C27_Witness ==
    \E w \in Workers : \E v \in Workers \ {w} : \E r \in slackUsers :
        /\ worker[w].pc = "userSave" /\ worker[w].upd[1] = 3
        /\ worker[v].pc = "sendMessage" /\ worker[v].token = 2
        /\ Owner(w) = r.id /\ Owner(v) = r.id
        /\ r.accessToken = 2
        /\ r.tokenExpiresAt # NoDate /\ r.tokenExpiresAt > now

\* C28: the token a step holds when it calls the send is the one
\* ensureValidToken returned in that step for the record's own userId: the
\* stored accessToken of that user's row if the row was not expired, else
\* the token the refresh issued, once it is saved in that row; it is never
\* the accessToken of another user's row, never the token of a row found
\* expired, and it is not changed between the return and the send.
C28_SendUsesOwnersToken ==
    [][\A w \in Workers :
         /\ (worker'[w].pc = "sendMessage" /\ worker[w].pc = "ensureValidToken") =>
               \E r \in slackUsers :
                  /\ r.id = Owner(w)
                  /\ r.tokenExpiresAt = NoDate \/ r.tokenExpiresAt > now
                  /\ worker'[w].token = r.accessToken
         /\ (worker[w].pc = "ensureValidToken" /\ Acts(w)) =>
               \A r \in slackUsers :
                  (r.id = Owner(w) /\ r.tokenExpiresAt # NoDate
                     /\ r.tokenExpiresAt <= now)
                  => ~(worker'[w].pc = "sendMessage"
                          /\ worker'[w].token = r.accessToken)
         /\ (worker'[w].pc = "sendMessage" /\ worker[w].pc = "userSave") =>
               /\ worker'[w].token = worker[w].upd[1]
               /\ \E r \in slackUsers' :
                     r.id = Owner(w) /\ r.accessToken = worker'[w].token
         /\ worker'[w].pc = "sendMessage" =>
               /\ worker[w].pc \in {"ensureValidToken", "userSave", "sendMessage"}
               /\ worker[w].pc = "sendMessage" => worker'[w].token = worker[w].token
               /\ \A r \in slackUsers' :
                     r.id # Owner(w)' => r.accessToken # worker'[w].token
         /\ (worker[w].pc = "sendMessage" /\ Acts(w)) =>
               worker'[w].token = worker[w].token]_vars

\* two users hold credentials, and a record of one of them has been
\* delivered with the access token stored for its own user
C28_Witness ==
    \E w \in Workers : \E r, o \in slackUsers :
        /\ worker[w].pc = "save"
        /\ delivered[CurId(w)]
        /\ r.id = Owner(w) /\ worker[w].token = r.accessToken
        /\ o.id # Owner(w) /\ o.accessToken # NoToken

\* C29: under any interleaving, and also when storage operations throw, a
\* record is stored with status failed only if no chat.postMessage call for
\* it has answered ok.
C29_FailedMeansUndelivered ==
    \A id \in Stored : Status(id) = "failed" => ~delivered[id]

AnswersSuccess(w) == worker[w].kind = "sendNow" /\ worker'[w].kind = "idle"

\* C31: when the send-now route answers success for a message id, the record
\* is stored with status sent; a request whose delivery failed (the record is
\* stored failed) is not answered with success.
C31_SuccessMeansSent ==
    [][\A w \in Workers :
         AnswersSuccess(w) =>
            /\ scheduledMessages'[CurId(w)].status = "sent"
            /\ worker'[w].outcome # "failed"]_vars

\* ensureValidToken returns a token to the step of worker w
ReturnsToken(w) ==
    /\ worker[w].pc \in {"ensureValidToken", "userSave"}
    /\ worker'[w].pc = "sendMessage"

\* C32: when ensureValidToken returns a token, the stored credential of that
\* user is not expired (tokenExpiresAt absent or later than now), whatever the
\* refresh response contained, so that a call following at once would not
\* refresh.
C32_ReturnedMeansUnexpired ==
    [][\A w \in Workers :
         ReturnsToken(w) =>
            \A r \in slackUsers' :
               r.id = Owner(w) => ~Expired(r, now)]_vars

\* C33: a call of ensureValidToken that fails (no row for the user, an expired
\* row without refresh token, a failed refresh, or a save that throws) leaves
\* the stored credentials as they were: neither the step that fails nor any
\* step of the call before the save writes to the collection.
C33_FailureLeavesCredential ==
    [][\A w \in Workers :
         /\ (Acts(w) /\ worker[w].pc \in {"ensureValidToken", "refresh"})
               => UNCHANGED slackUsers
         /\ (Acts(w) /\ worker[w].pc \in {"ensureValidToken", "refresh", "userSave"}
                /\ worker'[w].pc = "saveFailed")
               => /\ UNCHANGED slackUsers
                  /\ worker'[w].err \in AuthErrors \cup {ErrStorage}]_vars

\* the refresh call has failed on an expired credential that holds a refresh
\* token: the row is stored as authorization wrote it
C33_Witness ==
    \E w \in Workers : \E r \in slackUsers :
        /\ worker[w].pc = "saveFailed" /\ worker[w].err = ErrRefresh
        /\ r.id = Owner(w)
        /\ r.accessToken = r.refreshToken /\ r.refreshToken # NoToken
        /\ r.tokenExpiresAt # NoDate /\ r.tokenExpiresAt <= now

\* the record a step may write: the one worker w is processing, or the one
\* canceller c is saving
WrittenBy(id) ==
    \/ \E w \in Workers :
          Acts(w) /\ worker[w].kind \in {"tick", "sendNow"} /\ CurId(w) = id
    \/ \E c \in Cancellers :
          canceller'[c] # canceller[c] /\ canceller[c].pc = "save"
             /\ canceller[c].id = id

\* C34: a cancel, a send-now and a tick change only status, sentAt and error
\* of the record they act on: a stored record keeps its _id, userId, message
\* and scheduledFor for ever, and a step changes no record other than the one
\* it is processing or cancelling.
C34_OnlyOutcomeFieldsChange ==
    [][\A id \in Stored :
         /\ id \in DOMAIN scheduledMessages'
         /\ scheduledMessages'[id].userId = scheduledMessages[id].userId
         /\ scheduledMessages'[id].message = scheduledMessages[id].message
         /\ scheduledMessages'[id].scheduledFor = scheduledMessages[id].scheduledFor
         /\ scheduledMessages'[id] # scheduledMessages[id] => WrittenBy(id)]_vars

\* of two stored records one has been cancelled and the other has been
\* processed and stored failed with its error; both keep their body
C34_Witness ==
    \E id, other \in Stored :
        /\ id # other
        /\ Status(id) = "failed" /\ scheduledMessages[id].error # NoError
        /\ Status(other) = "cancelled" /\ cancelledOk[other]
        /\ scheduledMessages[id].message = MessageMaxLength
        /\ scheduledMessages[other].message = MessageMaxLength

\* the send-now route answers 404 to the request of worker'[w].caller for
\* worker'[w].lastId
AnswersNotFound(w) ==
    /\ worker[w].kind = "idle"
    /\ Acts(w)
    /\ worker'[w].outcome = "notFound"

\* the send-now route calls sendScheduledMessage for a request
StartsSendNow(w) == worker[w].kind = "idle" /\ worker'[w].kind = "sendNow"

\* C35: the send-now route calls sendScheduledMessage only for a record that
\* is stored, owned by the requesting user and pending at the route's check;
\* every other request (another user's record, an unknown id, a record that
\* is sent, failed or cancelled) is answered not found, with no send and no
\* change to any stored record; a send made for a request is a send of a
\* record of the requesting user.
C35_SendNowOnlyOwnPending ==
    [][\A w \in Workers :
         /\ StartsSendNow(w) =>
               /\ worker'[w].queue[1] \in Stored
               /\ scheduledMessages[worker'[w].queue[1]].userId = worker'[w].caller
               /\ Status(worker'[w].queue[1]) = "pending"
               /\ UNCHANGED <<scheduledMessages, sendCalls, delivered>>
         /\ AnswersNotFound(w) =>
               /\ \/ worker'[w].lastId \notin Stored
                  \/ scheduledMessages[worker'[w].lastId].userId # worker'[w].caller
                  \/ Status(worker'[w].lastId) \in Terminal
               /\ UNCHANGED <<scheduledMessages, sendCalls, delivered, slackUsers>>
         /\ (worker[w].kind = "sendNow" /\ Acts(w)) =>
               /\ scheduledMessages[CurId(w)].userId = worker[w].caller
               /\ \A id \in Stored \ {CurId(w)} :
                     /\ sendCalls'[id] = sendCalls[id]
                     /\ scheduledMessages'[id] = scheduledMessages[id]]_vars

\* a request of one user for the pending record of another user has been
\* answered not found and the record has not been sent
C35_Witness ==
    \E w \in Workers : \E id \in Stored :
        /\ worker[w].kind = "idle" /\ worker[w].lastKind = "sendNow"
        /\ worker[w].outcome = "notFound" /\ worker[w].lastId = id
        /\ worker[w].caller \in Users
        /\ scheduledMessages[id].userId # worker[w].caller
        /\ Status(id) = "pending"
        /\ sendCalls[id] = 0

====
